---- MODULE Spec2Model ----
(***************************************************************************)
(* A model of the Smart Store analytics scripts:                           *)
(*   - run_all_data_prep.py     the orchestrator of the cleaning scripts   *)
(*   - create_warehouse.py      the warehouse schema                       *)
(*   - load_warehouse.py        the ETL loader                             *)
(*   - prepare_products.py      validate_data / standardize_formats        *)
(*   - expand_data_for_p7.py    backup_existing_data / save_data / main    *)
(* Each script has its own specification over its own variables; the       *)
(* variables of the other scripts keep their idle values.                  *)
(***************************************************************************)
EXTENDS Integers, Sequences, FiniteSets, TLC

VARIABLES
    \* ---- run_all_data_prep.py
    prep_pc,        \* position in main / run_data_prep_pipeline
    i,              \* index of the for loop over scripts (1-based)
    child,          \* the script running as a subprocess, or "none"
    invoked,        \* history: the scripts handed to subprocess.run, in order
    results,        \* the results dict, as a sequence of [script, status] in insertion order
    j,              \* index of the summary loop over results.items()
    success_count,
    failed_count,
    exit_code,      \* the value given to sys.exit, -1 while the process runs
    \* ---- create_warehouse.py / load_warehouse.py
    db,             \* the SQLite file smart_store_dw.db
    db0,            \* history: the database as it was before anything ran
    schema_created, \* history: create_warehouse_schema has returned
    prepared,       \* the files of data/prepared
    etl_pc,         \* position in load_warehouse.main
    etl_log,        \* history: the steps the current ETL run has entered, in order
    etl_error,      \* the step whose exception main logged and re-raised, or "none"
    etl_runs,       \* how many ETL runs have been started
    schema_at_start, \* history: create_warehouse_schema had run when the ETL run started
    first_load,     \* history: the first ETL run that completed and what it left
    \* ---- prepare_products.py
    prod_pc,        \* position in main
    prod_df_in,     \* history: the frame handed to validate_data
    prod_df,        \* main's frame df
    prod_df_swapped, \* the frame of the run that calls standardize_formats before validate_data
    \* ---- expand_data_for_p7.py
    exp_pc,         \* position in main
    exp_i,          \* index of the file in the loop of backup_existing_data or in save_data
    raw_files,      \* RAW_DATA_DIR: file name -> content or NoFile
    backup_files,   \* BACKUP_DIR: set of [name, timestamp, content]
    backup_count,   \* backup_existing_data's backup_count
    now,            \* datetime.now(), in seconds
    warnings,       \* the file names of the "File not found" warnings logged
    raw_at_start,   \* history: raw_files when main started
    \* ---- expand_data_for_p7.py, the generators
    gen_pc,         \* the generator main is in
    gen_i,          \* the loop variable i
    gen_category,   \* generate_products_data: index of the loop over CATEGORIES
    product_id,     \* generate_products_data: the running product_id
    gen_customers,  \* the list customers
    gen_products,   \* the list products
    gen_sales,      \* the list sales
    \* ---- data_preparation: main of prepare_products.py, prepare_sales.py, prepare_customers.py
    pipe_entity,    \* the script: "products", "sales" or "customers"
    pipe_pc,        \* the step main calls next
    pipe_raw,       \* history: the rows read from the raw file
    pipe_df,        \* main's frame df
    pipe_counts     \* history: the row count of the raw file and after every step

prepVars == <<prep_pc, i, child, invoked, results, j, success_count, failed_count, exit_code>>

dwVars == <<db, db0, schema_created, prepared, etl_pc, etl_log, etl_error, etl_runs, schema_at_start,
           first_load>>

prodVars == <<prod_pc, prod_df_in, prod_df, prod_df_swapped>>

expVars == <<exp_pc, exp_i, raw_files, backup_files, backup_count, now, warnings, raw_at_start>>

genVars == <<gen_pc, gen_i, gen_category, product_id, gen_customers, gen_products, gen_sales>>

pipeVars == <<pipe_entity, pipe_pc, pipe_raw, pipe_df, pipe_counts>>

vars == <<prepVars, dwVars, prodVars, expVars, genVars, pipeVars>>

otherThanPrep == <<dwVars, prodVars, expVars, genVars, pipeVars>>

otherThanDw == <<prepVars, prodVars, expVars, genVars, pipeVars>>

otherThanProd == <<prepVars, dwVars, expVars, genVars, pipeVars>>

otherThanExp == <<prepVars, dwVars, prodVars, genVars, pipeVars>>

otherThanGen == <<prepVars, dwVars, prodVars, expVars, pipeVars>>

otherThanPipe == <<prepVars, dwVars, prodVars, expVars, genVars>>

(***************************************************************************)
(* Generic helpers                                                         *)
(***************************************************************************)
Range(s) == {s[k] : k \in DOMAIN s}

IsPrefix(s, t) == Len(s) <= Len(t) /\ \A k \in 1..Len(s) : s[k] = t[k]

(***************************************************************************)
(* run_all_data_prep.py                                                    *)
(***************************************************************************)

\* mutant of scripts: the product script listed before the customer script
scripts_ProductsFirst ==
    << "prepare_products.py", "prepare_customers.py", "prepare_sales.py" >>

\* run_data_prep_pipeline: the scripts in execution order
scripts == << "prepare_customers.py", "prepare_products.py", "prepare_sales.py" >>

\* the exit codes a child process is given in the model: 0, and two non-zero ones
ExitCodes == {0, 1, 2}

\* results[script_name] = {...}: assignment to a dict keeps insertion order and
\* replaces the value of a key that is already present
DictSet(d, key, status) ==
    IF \E k \in DOMAIN d : d[k].script = key
    THEN [k \in DOMAIN d |-> IF d[k].script = key
                             THEN [script |-> key, status |-> status] ELSE d[k]]
    ELSE Append(d, [script |-> key, status |-> status])

\* mutant of LoopContinue: a failure ends the loop (a break in the except branch)
LoopBreakOnFailure(idx, status) ==
    IF status = "SUCCESS" THEN idx + 1 ELSE Len(scripts) + 1

\* the for loop goes on to the next script whatever status was recorded
LoopContinue(idx, status) == idx + 1

\* mutant of CountsAsSuccess: only FAILED counts as a failure
CountsAsSuccess_NotFoundToo(status) == status # "FAILED"

\* the summary loop: status == "SUCCESS" adds to success_count, anything else to failed_count
CountsAsSuccess(status) == status = "SUCCESS"

\* return 1 if failed_count > 0 else 0
ReturnCode(failed) == IF failed > 0 THEN 1 ELSE 0

\* subprocess.run(...) is entered for scripts[i] and the child process starts
PrepSpawn ==
    /\ prep_pc = "loop"
    /\ i <= Len(scripts)
    /\ child = "none"
    /\ child' = scripts[i]
    /\ invoked' = Append(invoked, scripts[i])
    /\ UNCHANGED otherThanPrep
    /\ UNCHANGED <<prep_pc, i, results, j, success_count, failed_count, exit_code>>

\* the child terminates: check=True turns a non-zero exit into CalledProcessError
PrepChildExit ==
    /\ prep_pc = "loop"
    /\ child # "none"
    /\ \E rc \in ExitCodes :
         LET status == IF rc = 0 THEN "SUCCESS" ELSE "FAILED" IN
         /\ results' = DictSet(results, child, status)
         /\ i' = LoopContinue(i, status)
    /\ child' = "none"
    /\ UNCHANGED otherThanPrep
    /\ UNCHANGED <<prep_pc, invoked, j, success_count, failed_count, exit_code>>

\* subprocess.run raises FileNotFoundError: no child process was created
PrepNotFound ==
    /\ prep_pc = "loop"
    /\ i <= Len(scripts)
    /\ child = "none"
    /\ invoked' = Append(invoked, scripts[i])
    /\ results' = DictSet(results, scripts[i], "NOT FOUND")
    /\ i' = LoopContinue(i, "NOT FOUND")
    /\ UNCHANGED otherThanPrep
    /\ UNCHANGED <<prep_pc, child, j, success_count, failed_count, exit_code>>

\* subprocess.run raises an exception that run_data_prep_pipeline does not catch
\* (another OSError): main's except branch logs it and exits with 1
PrepCritical ==
    /\ prep_pc = "loop"
    /\ i <= Len(scripts)
    /\ child = "none"
    /\ invoked' = Append(invoked, scripts[i])
    /\ prep_pc' = "critical"
    /\ exit_code' = 1
    /\ UNCHANGED otherThanPrep
    /\ UNCHANGED <<i, child, results, j, success_count, failed_count>>

\* the for loop is exhausted: success_count = failed_count = 0, the summary loop starts
PrepLoopEnd ==
    /\ prep_pc = "loop"
    /\ i > Len(scripts)
    /\ child = "none"
    /\ prep_pc' = "summary"
    /\ j' = 1
    /\ success_count' = 0
    /\ failed_count' = 0
    /\ UNCHANGED otherThanPrep
    /\ UNCHANGED <<i, child, invoked, results, exit_code>>

\* one iteration of: for script_name, result_info in results.items()
PrepCount ==
    /\ prep_pc = "summary"
    /\ j <= Len(results)
    /\ IF CountsAsSuccess(results[j].status)
       THEN success_count' = success_count + 1 /\ UNCHANGED failed_count
       ELSE failed_count' = failed_count + 1 /\ UNCHANGED success_count
    /\ j' = j + 1
    /\ UNCHANGED otherThanPrep
    /\ UNCHANGED <<prep_pc, i, child, invoked, results, exit_code>>

\* the return of run_data_prep_pipeline and main's sys.exit(exit_code)
PrepReturn ==
    /\ prep_pc = "summary"
    /\ j > Len(results)
    /\ prep_pc' = "returned"
    /\ exit_code' = ReturnCode(failed_count)
    /\ UNCHANGED otherThanPrep
    /\ UNCHANGED <<i, child, invoked, results, j, success_count, failed_count>>

(***************************************************************************)
(* The warehouse database (SQLite)                                         *)
(***************************************************************************)

\* the entities of the star schema
Kinds == {"customers", "products", "dates", "sales"}

\* create_warehouse_schema: the table it creates for an entity
DimTable(kind) ==
    CASE kind = "customers" -> "dim_customers"
      [] kind = "products"  -> "dim_products"
      [] kind = "dates"     -> "dim_dates"
      [] kind = "sales"     -> "fact_sales"

\* load_warehouse.py: the table its SQL and to_sql calls name for an entity
LoaderTable(kind) == kind

DimTables == {DimTable(k) : k \in Kinds}

LoaderTables == {LoaderTable(k) : k \in Kinds}

TableNames == DimTables \cup Kinds

\* the entity a table holds
KindOf(t) == CHOOSE k \in Kinds : t \in {k, DimTable(k)}

\* create_warehouse_schema: CREATE INDEX name ON table(column)
SchemaIndexes ==
    << [name |-> "idx_customers_customer_id", on |-> "dim_customers"],
       [name |-> "idx_products_product_id",   on |-> "dim_products"],
       [name |-> "idx_dates_full_date",       on |-> "dim_dates"],
       [name |-> "idx_sales_customer_key",    on |-> "fact_sales"],
       [name |-> "idx_sales_product_key",     on |-> "fact_sales"],
       [name |-> "idx_sales_date_key",        on |-> "fact_sales"],
       [name |-> "idx_sales_transaction_id",  on |-> "fact_sales"] >>

SchemaIndexNames == {SchemaIndexes[k].name : k \in DOMAIN SchemaIndexes}

\* an index of the database that create_warehouse.py does not name
OtherIndex == "idx_sales_campaign_id"

IndexNames == SchemaIndexNames \cup {OtherIndex}

\* the tables whose key column is INTEGER PRIMARY KEY AUTOINCREMENT
\* (customer_key, product_key, sale_id); dim_dates.date_key is given by the loader
AutoIncrement(t) == KindOf(t) # "dates"

\* a database file without any table
EmptyDb ==
    [ exists |-> {},                                \* the tables of sqlite_master
      rows   |-> [t \in TableNames |-> << >>],      \* their rows, in rowid order
      index  |-> [n \in IndexNames |-> "none"],     \* the table each index is on
      seq    |-> [t \in TableNames |-> 0] ]         \* sqlite_sequence

\* DROP TABLE IF EXISTS t: the table goes with its rows, its indexes and its
\* sqlite_sequence entry
DropTableIfExists(d, t) ==
    [ exists |-> d.exists \ {t},
      rows   |-> [d.rows EXCEPT ![t] = << >>],
      index  |-> [n \in IndexNames |-> IF d.index[n] = t THEN "none" ELSE d.index[n]],
      seq    |-> [d.seq EXCEPT ![t] = 0] ]

\* DROP INDEX IF EXISTS n: index names are global to the database
DropIndexIfExists(d, n) == [d EXCEPT !.index[n] = "none"]

\* one SQL statement of create_warehouse_schema; DDL runs in autocommit mode,
\* so every statement that succeeds is durable at once
ExecStmt(d, st) ==
    CASE st.op = "DROP TABLE" -> [ok |-> TRUE, db |-> DropTableIfExists(d, st.name)]
      [] st.op = "DROP INDEX" -> [ok |-> TRUE, db |-> DropIndexIfExists(d, st.name)]
      [] st.op = "CREATE TABLE" ->
            IF st.name \in d.exists
            THEN [ok |-> FALSE, db |-> d]           \* table already exists
            ELSE [ok |-> TRUE, db |-> [d EXCEPT !.exists = @ \cup {st.name}]]
      [] st.op = "CREATE INDEX" ->
            IF d.index[st.name] # "none" \/ st.on \notin d.exists
            THEN [ok |-> FALSE, db |-> d]           \* index already exists / no such table
            ELSE [ok |-> TRUE, db |-> [d EXCEPT !.index[st.name] = st.on]]

\* create_warehouse_schema: the DROP statements, in program order
SchemaDrops ==
    << [op |-> "DROP TABLE", name |-> "fact_sales",    on |-> ""],
       [op |-> "DROP TABLE", name |-> "dim_customers", on |-> ""],
       [op |-> "DROP TABLE", name |-> "dim_products",  on |-> ""],
       [op |-> "DROP TABLE", name |-> "dim_dates",     on |-> ""] >>
    \o [k \in DOMAIN SchemaIndexes |->
        [op |-> "DROP INDEX", name |-> SchemaIndexes[k].name, on |-> ""]]

\* create_warehouse_schema: the CREATE statements, in program order
SchemaCreates ==
    << [op |-> "CREATE TABLE", name |-> "dim_customers", on |-> ""],
       [op |-> "CREATE TABLE", name |-> "dim_products",  on |-> ""],
       [op |-> "CREATE TABLE", name |-> "dim_dates",     on |-> ""],
       [op |-> "CREATE TABLE", name |-> "fact_sales",    on |-> ""] >>
    \o [k \in DOMAIN SchemaIndexes |->
        [op |-> "CREATE INDEX", name |-> SchemaIndexes[k].name, on |-> SchemaIndexes[k].on]]

\* mutant of SchemaStatements: the clean rebuild also drops the table sales
SchemaStatements_DropsSales ==
    << [op |-> "DROP TABLE", name |-> "sales", on |-> ""] >> \o SchemaDrops \o SchemaCreates

\* create_warehouse_schema: its statements in program order
SchemaStatements == SchemaDrops \o SchemaCreates

\* the statements from the k-th on, until one raises
RECURSIVE ExecFrom(_, _, _)
ExecFrom(d, stmts, k) ==
    IF k > Len(stmts) THEN [ok |-> TRUE, db |-> d]
    ELSE LET r == ExecStmt(d, stmts[k]) IN
         IF r.ok THEN ExecFrom(r.db, stmts, k + 1) ELSE r

\* create_warehouse_schema applied to a database
create_warehouse_schema(d) == ExecFrom(d, SchemaStatements, 1)

(***************************************************************************)
(* Values of the prepared files and their conversions                      *)
(***************************************************************************)

\* the highest day number of the model's calendar window
MaxDay == 3

\* the calendar day with day number 0 (the window crosses a year's end)
Epoch == <<2024, 12, 30>>

IsLeap(y) == (y % 4 = 0 /\ y % 100 # 0) \/ y % 400 = 0

DaysIn(y, m) ==
    IF m = 2 THEN (IF IsLeap(y) THEN 29 ELSE 28)
    ELSE IF m \in {4, 6, 9, 11} THEN 30 ELSE 31

NextDay(ymd) ==
    LET y == ymd[1]  m == ymd[2]  d == ymd[3] IN
    IF d < DaysIn(y, m) THEN <<y, m, d + 1>>
    ELSE IF m < 12 THEN <<y, m + 1, 1>>
    ELSE <<y + 1, 1, 1>>

\* the calendar date of a day number (a Timestamp's date)
RECURSIVE DateOfDay(_)
DateOfDay(n) == IF n = 0 THEN Epoch ELSE NextDay(DateOfDay(n - 1))

\* pd.to_datetime of a 'YYYY-MM-DD' string: the day number of the date
to_datetime(ymd) == CHOOSE n \in 0..MaxDay : DateOfDay(n) = ymd

\* int(d.strftime('%Y%m%d'))
DateKey(n) ==
    LET ymd == DateOfDay(n) IN ymd[1] * 10000 + ymd[2] * 100 + ymd[3]

\* d.strftime('%Y-%m-%d')
FullDate(n) == DateOfDay(n)

\* the text of an ID: str() of an int64 column gives "1001", of a float64
\* column "1001.0"; a TEXT column stores a bound number as the same text
IdText(n, dtype) == [digits |-> n, point_zero |-> (dtype = "float")]

\* df.drop_duplicates(subset=[key], keep='first') on the column named col
drop_duplicates(rows, col) ==
    LET keep == {k \in DOMAIN rows : \A h \in 1..(k - 1) : rows[h][col] # rows[k][col]}
        RECURSIVE Pick(_)
        Pick(k) == IF k > Len(rows) THEN << >>
                   ELSE IF k \in keep THEN <<rows[k]>> \o Pick(k + 1) ELSE Pick(k + 1)
    IN Pick(1)

(***************************************************************************)
(* load_warehouse.py                                                       *)
(***************************************************************************)

\* the column of a table that carries a UNIQUE NOT NULL constraint (the DDL of
\* create_warehouse_schema, which is the only schema of the repository)
UniqueColumn(t) ==
    CASE KindOf(t) = "customers" -> "customer_id"
      [] KindOf(t) = "products"  -> "product_id"
      [] KindOf(t) = "dates"     -> "full_date"
      [] KindOf(t) = "sales"     -> "transaction_id"

\* the key column of a table
KeyColumn(t) ==
    CASE KindOf(t) = "customers" -> "customer_key"
      [] KindOf(t) = "products"  -> "product_key"
      [] KindOf(t) = "dates"     -> "date_key"
      [] KindOf(t) = "sales"     -> "sale_id"

\* the rows as SQLite stores them: an AUTOINCREMENT key is one more than the
\* largest key the table ever held
RECURSIVE WithKeys(_, _, _)
WithKeys(t, newrows, last) ==
    IF newrows = << >> THEN << >>
    ELSE <<[Head(newrows) EXCEPT ![KeyColumn(t)] = last + 1]>>
         \o WithKeys(t, Tail(newrows), last + 1)

\* frame.to_sql(t, conn, if_exists='append', index=False): all rows are inserted
\* in one transaction; a constraint violation rolls it back and raises
to_sql(d, t, newrows) ==
    LET stored == IF AutoIncrement(t) THEN WithKeys(t, newrows, d.seq[t]) ELSE newrows
        all    == d.rows[t] \o stored
        ok     == \A a, b \in DOMAIN all :
                     a # b => /\ all[a][UniqueColumn(t)] # all[b][UniqueColumn(t)]
                              /\ all[a][KeyColumn(t)] # all[b][KeyColumn(t)]
    IN IF ok
       THEN [ ok |-> TRUE,
              db |-> [ exists |-> d.exists \cup {t},
                       rows   |-> [d.rows EXCEPT ![t] = all],
                       index  |-> d.index,
                       seq    |-> IF AutoIncrement(t)
                                  THEN [d.seq EXCEPT ![t] = @ + Len(newrows)] ELSE d.seq ] ]
       ELSE [ok |-> FALSE, db |-> d]

\* mutant of clear_warehouse_data: the rows of the sales table are not deleted
clear_warehouse_data_KeepsSales(d) ==
    LET targets == << LoaderTable("sales"), LoaderTable("customers"),
                      LoaderTable("products"), LoaderTable("dates") >>
    IN IF \A k \in DOMAIN targets : targets[k] \in d.exists
       THEN [ ok |-> TRUE,
              db |-> [d EXCEPT !.rows = [t \in TableNames |->
                                           IF t \in Range(targets) \ {LoaderTable("sales")}
                                           THEN << >> ELSE d.rows[t]]] ]
       ELSE [ok |-> FALSE, db |-> d]

\* mutant of clear_warehouse_data: the rows of the customers table are not deleted
clear_warehouse_data_KeepsCustomers(d) ==
    LET targets == << LoaderTable("sales"), LoaderTable("customers"),
                      LoaderTable("products"), LoaderTable("dates") >>
    IN IF \A k \in DOMAIN targets : targets[k] \in d.exists
       THEN [ ok |-> TRUE,
              db |-> [d EXCEPT !.rows = [t \in TableNames |->
                                           IF t \in Range(targets) \ {LoaderTable("customers")}
                                           THEN << >> ELSE d.rows[t]]] ]
       ELSE [ok |-> FALSE, db |-> d]

\* clear_warehouse_data: four DELETE statements in one transaction, committed at
\* the end; a missing table raises and the uncommitted deletes are rolled back.
\* DELETE leaves sqlite_sequence as it is.
clear_warehouse_data(d) ==
    LET targets == << LoaderTable("sales"), LoaderTable("customers"),
                      LoaderTable("products"), LoaderTable("dates") >>
    IN IF \A k \in DOMAIN targets : targets[k] \in d.exists
       THEN [ ok |-> TRUE,
              db |-> [d EXCEPT !.rows = [t \in TableNames |->
                                           IF t \in Range(targets) THEN << >> ELSE d.rows[t]]] ]
       ELSE [ok |-> FALSE, db |-> d]

\* mutant of load_customers: the frame is loaded as it was read
load_customers_NoDedupe(d, files) ==
    IF ~files.customers.present THEN [ok |-> FALSE, db |-> d]
    ELSE LET df == files.customers.rows
             customers == [k \in DOMAIN df |->
                             [ customer_key |-> 0,
                               customer_id  |-> IdText(df[k].CustomerID, files.customers.dtype) ]]
         IN to_sql(d, LoaderTable("customers"), customers)

\* load_customers: read_csv, drop_duplicates on CustomerID, to_sql
load_customers(d, files) ==
    IF ~files.customers.present THEN [ok |-> FALSE, db |-> d]
    ELSE LET df == drop_duplicates(files.customers.rows, "CustomerID")
             customers == [k \in DOMAIN df |->
                             [ customer_key |-> 0,
                               customer_id  |-> IdText(df[k].CustomerID, files.customers.dtype) ]]
         IN to_sql(d, LoaderTable("customers"), customers)

\* load_products: read_csv, to_sql
load_products(d, files) ==
    IF ~files.products.present THEN [ok |-> FALSE, db |-> d]
    ELSE LET df == files.products.rows
             products == [k \in DOMAIN df |->
                            [ product_key |-> 0,
                              product_id  |-> IdText(df[k].productid, "int") ]]
         IN to_sql(d, LoaderTable("products"), products)

\* the smallest and the largest element of a non-empty set of numbers
Min(S) == CHOOSE x \in S : \A y \in S : x <= y

Max(S) == CHOOSE x \in S : \A y \in S : x >= y

\* mutant of date_range: the end day is left out
date_range_EndExclusive(start, end) == [k \in 1..(end - start) |-> start + k - 1]

\* pd.date_range(start, end, freq='D'): every day from start to end, both included
date_range(start, end) == [k \in 1..(end - start + 1) |-> start + k - 1]

\* load_dates: one row per day between the first and the last transaction date;
\* with no sales row min() is NaT and date_range raises
load_dates(d, files) ==
    IF ~files.sales.present \/ files.sales.rows = << >> THEN [ok |-> FALSE, db |-> d]
    ELSE LET days  == {to_datetime(files.sales.rows[k].transactiondate) :
                          k \in DOMAIN files.sales.rows}
             range == date_range(Min(days), Max(days))
             dates == [k \in DOMAIN range |->
                         [date_key |-> DateKey(range[k]), full_date |-> FullDate(range[k])]]
         IN to_sql(d, LoaderTable("dates"), dates)

\* a missing value of a merged key column
NaN == 0

\* left.merge(dim, left_on=lcol, right_on=rcol, how='left'), keeping of the
\* dimension only its key column: a left row comes out once per matching
\* dimension row, in order, and once with a missing key if none matches
RECURSIVE merge_left(_, _, _, _, _)
merge_left(left, dim, lcol, rcol, keycol) ==
    IF left = << >> THEN << >>
    ELSE LET row  == Head(left)
             hits == SelectSeq(dim, LAMBDA r : r[rcol] = row[lcol])
             out  == IF hits = << >>
                     THEN << [row EXCEPT ![keycol] = NaN] >>
                     ELSE [k \in DOMAIN hits |-> [row EXCEPT ![keycol] = hits[k][keycol]]]
         IN out \o merge_left(Tail(left), dim, lcol, rcol, keycol)

\* mutant of dropna: only the customer key is looked at
dropna_CustomerOnly(df) == SelectSeq(df, LAMBDA r : r.customer_key # NaN)

\* df.dropna(subset=['customer_key', 'product_key'])
dropna(df) == SelectSeq(df, LAMBDA r : r.customer_key # NaN /\ r.product_key # NaN)

\* load_sales: read_csv, the two key lookups, dropna, to_sql
load_sales(d, files) ==
    IF ~files.sales.present
       \/ LoaderTable("customers") \notin d.exists
       \/ LoaderTable("products") \notin d.exists
    THEN [ok |-> FALSE, db |-> d]
    ELSE LET raw == files.sales.rows
             customers_dim == d.rows[LoaderTable("customers")]
             products_dim  == d.rows[LoaderTable("products")]
             df0 == [k \in DOMAIN raw |->
                       [ transactionid |-> raw[k].transactionid,
                         date_key      |-> DateKey(to_datetime(raw[k].transactiondate)),
                         customerid    |-> IdText(raw[k].customerid, "int"),
                         productid     |-> IdText(raw[k].productid, "int"),
                         customer_key  |-> NaN,
                         product_key   |-> NaN ]]
             df1 == merge_left(df0, customers_dim, "customerid", "customer_id", "customer_key")
             df2 == merge_left(df1, products_dim, "productid", "product_id", "product_key")
             df3 == dropna(df2)
             sales == [k \in DOMAIN df3 |->
                         [ sale_id        |-> 0,
                           transaction_id |-> IdText(df3[k].transactionid, "int"),
                           customer_key   |-> df3[k].customer_key,
                           product_key    |-> df3[k].product_key,
                           date_key       |-> df3[k].date_key ]]
         IN to_sql(d, LoaderTable("sales"), sales)

\* verify_load: the four counts and the sample join; nothing is written
verify_load(d) ==
    [ok |-> \A k \in Kinds : LoaderTable(k) \in d.exists, db |-> d]

\* mutant of StepAfter: the facts are loaded before the dates dimension
StepAfter_SalesBeforeDates(step) ==
    CASE step = "clear_warehouse_data" -> "load_customers"
      [] step = "load_customers"       -> "load_products"
      [] step = "load_products"        -> "load_sales"
      [] step = "load_sales"           -> "load_dates"
      [] step = "load_dates"           -> "verify_load"
      [] step = "verify_load"          -> "done"

\* load_warehouse.main: the statement that follows a step in the try block
StepAfter(step) ==
    CASE step = "clear_warehouse_data" -> "load_customers"
      [] step = "load_customers"       -> "load_products"
      [] step = "load_products"        -> "load_dates"
      [] step = "load_dates"           -> "load_sales"
      [] step = "load_sales"           -> "verify_load"
      [] step = "verify_load"          -> "done"

\* mutant of OnStepResult: the exception is logged and the pass goes on
OnStepResult_LogAndGoOn(step, ok) == StepAfter(step)

\* load_warehouse.main: a step that returns is followed by the next statement,
\* a step that raises leaves the try block (except: log, raise)
OnStepResult(step, ok) == IF ok THEN StepAfter(step) ELSE "failed"

\* the function a step of main calls
RunStep(step, d, files) ==
    CASE step = "clear_warehouse_data" -> clear_warehouse_data(d)
      [] step = "load_customers"       -> load_customers(d, files)
      [] step = "load_products"        -> load_products(d, files)
      [] step = "load_dates"           -> load_dates(d, files)
      [] step = "load_sales"           -> load_sales(d, files)
      [] step = "verify_load"          -> verify_load(d)

\* the business rows of the loader's tables: of every table the values of its
\* business ID (customer_id, product_id, full_date, transaction_id), in row
\* order, and of every sale the IDs of the rows its keys lead to
BusinessRows(d) ==
    LET IdOf(kind, key) ==
            LET t    == LoaderTable(kind)
                hits == SelectSeq(d.rows[t], LAMBDA r : r[KeyColumn(t)] = key)
            IN [k \in DOMAIN hits |-> hits[k][UniqueColumn(t)]]
    IN [ ids   |-> [kind \in Kinds |->
                      [k \in DOMAIN d.rows[LoaderTable(kind)] |->
                          d.rows[LoaderTable(kind)][k][UniqueColumn(LoaderTable(kind))]]],
         sales |-> [k \in DOMAIN d.rows[LoaderTable("sales")] |->
                      LET r == d.rows[LoaderTable("sales")][k] IN
                      [ transaction_id |-> r.transaction_id,
                        customer_id    |-> IdOf("customers", r.customer_key),
                        product_id     |-> IdOf("products", r.product_key),
                        full_date      |-> IdOf("dates", r.date_key) ]] ]

\* how many times load_warehouse.py is run in the model
MaxRuns == 2

\* one statement of main's try block
Step(step) ==
    /\ LET r == RunStep(step, db, prepared) IN
       /\ db' = r.db
       /\ etl_pc' = OnStepResult(step, r.ok)
       /\ etl_error' = IF r.ok THEN etl_error ELSE step
       /\ first_load' = IF step = "verify_load" /\ r.ok /\ first_load.run = 0
                        THEN [run |-> etl_runs, rows |-> BusinessRows(r.db)]
                        ELSE first_load
    /\ etl_log' = Append(etl_log, step)
    /\ UNCHANGED <<db0, schema_created, prepared, etl_runs, schema_at_start>>
    /\ UNCHANGED otherThanDw

\* python load_warehouse.py: main is entered
ETLStart ==
    /\ etl_pc \in {"idle", "done", "failed"}
    /\ etl_runs < MaxRuns
    /\ etl_pc' = "clear_warehouse_data"
    /\ etl_log' = << >>
    /\ etl_error' = "none"
    /\ etl_runs' = etl_runs + 1
    /\ schema_at_start' = schema_created
    /\ UNCHANGED <<db, db0, schema_created, prepared, first_load>>
    /\ UNCHANGED otherThanDw

ClearWarehouseData ==
    /\ etl_pc = "clear_warehouse_data"
    /\ Step("clear_warehouse_data")

LoadCustomers ==
    /\ etl_pc = "load_customers"
    /\ Step("load_customers")

LoadProducts ==
    /\ etl_pc = "load_products"
    /\ Step("load_products")

LoadDates ==
    /\ etl_pc = "load_dates"
    /\ Step("load_dates")

LoadSales ==
    /\ etl_pc = "load_sales"
    /\ Step("load_sales")

VerifyLoad ==
    /\ etl_pc = "verify_load"
    /\ Step("verify_load")

\* python create_warehouse.py: create_warehouse_schema runs to its end or raises
\* (verify_schema only reads)
CreateWarehouse ==
    /\ etl_pc = "idle"
    /\ LET r == create_warehouse_schema(db) IN
       /\ db' = r.db
       /\ schema_created' = (schema_created \/ r.ok)
    /\ UNCHANGED <<db0, prepared, etl_pc, etl_log, etl_error, etl_runs, schema_at_start, first_load>>
    /\ UNCHANGED otherThanDw

(***************************************************************************)
(* The states the warehouse scripts are started in                         *)
(***************************************************************************)

\* a row that an earlier load left in a table
StaleRows(t) ==
    CASE KindOf(t) = "customers" ->
            << [customer_key |-> 1, customer_id |-> IdText(9, "int")] >>
      [] KindOf(t) = "products" ->
            << [product_key |-> 1, product_id |-> IdText(9, "int")] >>
      [] KindOf(t) = "dates" ->
            << [date_key |-> DateKey(0), full_date |-> FullDate(0)] >>
      [] KindOf(t) = "sales" ->
            << [ sale_id |-> 1, transaction_id |-> IdText(9, "int"), customer_key |-> 1,
                 product_key |-> 1, date_key |-> DateKey(0) ] >>

\* a database with the tables E; the named indexes sit on the created tables
\* ("dim"), on the loader's tables ("loader") or nowhere ("none")
PriorDb(E, placement, other, stale) ==
    [ exists |-> E,
      rows   |-> [t \in TableNames |-> IF t \in E /\ stale THEN StaleRows(t) ELSE << >>],
      index  |-> [n \in IndexNames |->
                    IF n = OtherIndex
                    THEN (IF other /\ "sales" \in E THEN "sales" ELSE "none")
                    ELSE LET ix == CHOOSE k \in DOMAIN SchemaIndexes : SchemaIndexes[k].name = n
                             on == IF placement = "dim" THEN SchemaIndexes[ix].on
                                   ELSE IF placement = "loader"
                                        THEN KindOf(SchemaIndexes[ix].on)
                                        ELSE "none"
                         IN IF on \in E THEN on ELSE "none"],
      seq    |-> [t \in TableNames |->
                    IF t \in E /\ stale /\ AutoIncrement(t) THEN 1 ELSE 0] ]

\* any database over the model's tables and indexes
PriorDbs ==
    { PriorDb(E, placement, other, stale) :
        E \in SUBSET TableNames, placement \in {"none", "dim", "loader"},
        other \in BOOLEAN, stale \in BOOLEAN }

\* the databases the ETL is started on: no table, some of the loader's tables
\* (with rows), all of the loader's tables (empty, or with rows)
LoaderDbs ==
    { PriorDb({}, "loader", FALSE, FALSE),
      PriorDb({"sales", "customers"}, "loader", FALSE, TRUE),
      PriorDb(Kinds, "loader", FALSE, FALSE),
      PriorDb(Kinds, "loader", FALSE, TRUE) }

\* all sequences over S of length at most n
SeqsUpTo(S, n) == UNION {[1..m -> S] : m \in 0..n}

\* a prepared file that is not there
Missing == [present |-> FALSE, dtype |-> "int", rows |-> << >>]

\* customers_prepared.csv with the CustomerID column ids of type dtype
CustomerFile(dtype, ids) ==
    [present |-> TRUE, dtype |-> dtype, rows |-> [k \in DOMAIN ids |-> [CustomerID |-> ids[k]]]]

\* customers_prepared.csv: CustomerID is int64, or float64 as prepare_customers
\* writes it when the raw column had a gap
CustomerFiles ==
    { Missing, CustomerFile("int", <<1>>), CustomerFile("int", <<1, 2, 1>>),
      CustomerFile("float", <<1, 2, 1>>) }

\* products_prepared.csv
ProductFiles ==
    {Missing} \cup
    { [present |-> TRUE, dtype |-> "int", rows |-> [k \in DOMAIN ids |-> [productid |-> ids[k]]]] :
        ids \in {<<1>>, <<1, 2>>, <<1, 1>>} }

\* the most rows sales_prepared.csv has in the model
MaxSales == 2

\* the rows sales_prepared.csv is made of: customer 3 and product 3 are in no
\* dimension file; the first transaction is on the first day of the window,
\* the second on the last
SaleRows ==
    { r \in [ transactionid : {1, 2}, customerid : {1, 3}, productid : {1, 3},
              transactiondate : {DateOfDay(0), DateOfDay(MaxDay)} ] :
        /\ r.customerid = 1 \/ r.productid = 1
        /\ r.transactiondate = DateOfDay(IF r.transactionid = 1 THEN 0 ELSE MaxDay) }

\* sales_prepared.csv
SalesFiles ==
    {Missing} \cup
    { [present |-> TRUE, dtype |-> "int", rows |-> rows] : rows \in SeqsUpTo(SaleRows, MaxSales) }

PreparedFiles ==
    [customers : CustomerFiles, products : ProductFiles, sales : SalesFiles]

(***************************************************************************)
(* prepare_products.py: validate_data and standardize_formats              *)
(* A string is a sequence of one-character strings; a unit price is a      *)
(* number of thousandths of a dollar, a stock quantity a number of tenths. *)
(***************************************************************************)

LowerLetters == << "a", "b", "c", "d", "e", "f", "g", "h", "i", "j", "k", "l", "m",
                   "n", "o", "p", "q", "r", "s", "t", "u", "v", "w", "x", "y", "z" >>

UpperLetters == << "A", "B", "C", "D", "E", "F", "G", "H", "I", "J", "K", "L", "M",
                   "N", "O", "P", "Q", "R", "S", "T", "U", "V", "W", "X", "Y", "Z" >>

IsLower(c) == \E k \in DOMAIN LowerLetters : LowerLetters[k] = c

IsUpper(c) == \E k \in DOMAIN UpperLetters : UpperLetters[k] = c

\* the regular expression class [A-Za-z]
IsLetter(c) == IsLower(c) \/ IsUpper(c)

\* the regular expression class \s
IsSpace(c) == c \in {" ", "\t"}

ToUpper(c) ==
    IF IsLower(c) THEN UpperLetters[CHOOSE k \in DOMAIN LowerLetters : LowerLetters[k] = c] ELSE c

ToLower(c) ==
    IF IsUpper(c) THEN LowerLetters[CHOOSE k \in DOMAIN UpperLetters : UpperLetters[k] = c] ELSE c

\* str.title(): a cased character is upper case after an uncased one (or at
\* the start) and lower case after a cased one
RECURSIVE TitleFrom(_, _, _)
TitleFrom(s, k, previous_is_cased) ==
    IF k > Len(s) THEN << >>
    ELSE IF IsLetter(s[k])
         THEN << (IF previous_is_cased THEN ToLower(s[k]) ELSE ToUpper(s[k])) >>
              \o TitleFrom(s, k + 1, TRUE)
         ELSE << s[k] >> \o TitleFrom(s, k + 1, FALSE)

\* mutant of str_title: every letter is written in upper case
str_title_Upper(s) == [k \in DOMAIN s |-> ToUpper(s[k])]

str_title(s) == TitleFrom(s, 1, FALSE)

\* str.strip(): white space is removed at both ends
RECURSIVE lstrip(_)
lstrip(s) == IF s # << >> /\ IsSpace(Head(s)) THEN lstrip(Tail(s)) ELSE s

RECURSIVE rstrip(_)
rstrip(s) == IF s # << >> /\ IsSpace(s[Len(s)]) THEN rstrip(SubSeq(s, 1, Len(s) - 1)) ELSE s

str_strip(s) == rstrip(lstrip(s))

\* str.replace(r'\s+', ' ', regex=True): every run of white space becomes one space
RECURSIVE collapse_spaces(_)
collapse_spaces(s) ==
    IF s = << >> THEN << >>
    ELSE IF IsSpace(Head(s))
         THEN << " " >> \o collapse_spaces(lstrip(s))
         ELSE << Head(s) >> \o collapse_spaces(Tail(s))

\* str.replace('_', '-')
replace_underscores(s) == [k \in DOMAIN s |-> IF s[k] = "_" THEN "-" ELSE s[k]]

\* str.contains(r"[A-Za-z]")
contains_letter(s) == \E k \in DOMAIN s : IsLetter(s[k])

\* the quotient of n by step rounded half to even (n >= 0)
RoundHalfEven(n, step) ==
    LET q == n \div step
        r == n % step
    IN IF 2 * r < step THEN q
       ELSE IF 2 * r > step THEN q + 1
       ELSE IF q % 2 = 0 THEN q ELSE q + 1

\* Series.round(2) of a price in thousandths
round_2(price) == 10 * RoundHalfEven(price, 10)

\* Series.round() of a stock quantity in tenths
round_0(stock) == 10 * RoundHalfEven(stock, 10)

\* Series.astype(int) of a stock quantity in tenths: the fraction is cut off
astype_int(stock) == 10 * (stock \div 10)

\* validate_data: the approved categories
valid_categories ==
    { << "E", "l", "e", "c", "t", "r", "o", "n", "i", "c", "s" >>,
      << "C", "l", "o", "t", "h", "i", "n", "g" >>,
      << "H", "o", "m", "e" >>,
      << "O", "f", "f", "i", "c", "e" >>,
      << "B", "o", "o", "k", "s" >>,
      << "S", "p", "o", "r", "t", "s" >>,
      << "B", "e", "a", "u", "t", "y" >> }

\* mutant of validate_unitprice: the minimum price is checked on the unrounded price
validate_unitprice_FilterFirst(df) ==
    LET kept == SelectSeq(df, LAMBDA r : r.unitprice >= 1000)
    IN [k \in DOMAIN kept |-> [kept[k] EXCEPT !.unitprice = round_2(@)]]

\* validate_data, unit price rules: round to 2 decimal places, then keep prices >= 1.0
validate_unitprice(df) ==
    LET rounded == [k \in DOMAIN df |-> [df[k] EXCEPT !.unitprice = round_2(@)]]
    IN SelectSeq(rounded, LAMBDA r : r.unitprice >= 1000)

\* validate_data: the rules in program order; df[mask] keeps the rows of the
\* mask in order
validate_data(df) ==
    LET d1 == SelectSeq(df, LAMBDA r : r.productid >= 1000 /\ r.productid <= 99999)
        d2 == SelectSeq(d1, LAMBDA r : Len(r.productname) >= 2 /\ Len(r.productname) <= 100)
        d3 == SelectSeq(d2, LAMBDA r : contains_letter(r.productname))
        d4 == SelectSeq(d3, LAMBDA r : r.productcategory \in valid_categories)
        d5 == validate_unitprice(d4)
        d6 == [k \in DOMAIN d5 |-> [d5[k] EXCEPT !.stockquantity = astype_int(round_0(@))]]
        d7 == SelectSeq(d6, LAMBDA r : Len(r.suppliername) >= 2 /\ Len(r.suppliername) <= 50)
    IN d7

\* standardize_formats: the column rewrites in program order
standardize_formats(df) ==
    LET d1 == [k \in DOMAIN df |-> [df[k] EXCEPT !.productname =
                  replace_underscores(collapse_spaces(str_strip(str_title(@))))]]
        d2 == [k \in DOMAIN d1 |-> [d1[k] EXCEPT !.productcategory = str_strip(str_title(@))]]
        d3 == [k \in DOMAIN d2 |-> [d2[k] EXCEPT !.unitprice = round_2(@)]]
        d4 == [k \in DOMAIN d3 |-> [d3[k] EXCEPT !.stockquantity = astype_int(@)]]
        d5 == [k \in DOMAIN d4 |-> [d4[k] EXCEPT !.suppliername =
                  collapse_spaces(str_strip(str_title(@)))]]
        \* every text column is stripped once more
        d6 == [k \in DOMAIN d5 |-> [d5[k] EXCEPT !.productname = str_strip(@),
                                                  !.productcategory = str_strip(@),
                                                  !.suppliername = str_strip(@)]]
    IN d6

\* a product whose fields pass every rule and are in standard form
BaseProduct ==
    [ productid       |-> 1000,
      productname     |-> << "A", "b" >>,
      productcategory |-> << "H", "o", "m", "e" >>,
      unitprice       |-> 2500,
      stockquantity   |-> 20,
      suppliername    |-> << "A", "b" >> ]

\* the product rows of the model: the base product, and the base product with
\* one field replaced
ProductRows ==
    {BaseProduct}
    \cup {[BaseProduct EXCEPT !.productid = v] : v \in {999, 99999}}
    \cup {[BaseProduct EXCEPT !.productname = v] :
            v \in { << "a" >>, << " ", "a" >>, << "a", "b" >>, << "a", "_", "b" >>,
                    << "a", " ", " ", "b" >>, << "1", "2" >>, << "1", "a" >> }}
    \cup {[BaseProduct EXCEPT !.productcategory = v] :
            v \in { << "h", "o", "m", "e" >>, << " ", "H", "o", "m", "e" >>,
                    << "T", "o", "y", "s" >>, << "B", "O", "O", "K", "S" >> }}
    \cup {[BaseProduct EXCEPT !.unitprice = v] : v \in {994, 996, 1004}}
    \cup {[BaseProduct EXCEPT !.stockquantity = v] : v \in {26, 0}}
    \cup {[BaseProduct EXCEPT !.suppliername = v] :
            v \in { << " ", "a" >>, << "a", "b" >>, << "a", "\t", " ", "b" >> }}

\* the most rows the product frame has in the model
MaxProducts == 2

\* the frames handed to validate_data
ProductFrames == SeqsUpTo(ProductRows, MaxProducts) \ {<< >>}

\* main: df = validate_data(df)
ValidateData ==
    /\ prod_pc = "validate_data"
    /\ prod_df' = validate_data(prod_df)
    /\ prod_pc' = "standardize_formats"
    /\ UNCHANGED <<prod_df_in, prod_df_swapped>>
    /\ UNCHANGED otherThanProd

\* main: df = standardize_formats(df)
StandardizeFormats ==
    /\ prod_pc = "standardize_formats"
    /\ prod_df' = standardize_formats(prod_df)
    /\ prod_pc' = "save_prepared_data"
    /\ UNCHANGED <<prod_df_in, prod_df_swapped>>
    /\ UNCHANGED otherThanProd

\* the two steps in the other order on the same input: standardize_formats first
SwappedStandardizeFormats ==
    /\ prod_pc = "save_prepared_data"
    /\ prod_df_swapped' = standardize_formats(prod_df_in)
    /\ prod_pc' = "swapped_validate_data"
    /\ UNCHANGED <<prod_df_in, prod_df>>
    /\ UNCHANGED otherThanProd

\* the two steps in the other order on the same input: validate_data second
SwappedValidateData ==
    /\ prod_pc = "swapped_validate_data"
    /\ prod_df_swapped' = validate_data(prod_df_swapped)
    /\ prod_pc' = "compared"
    /\ UNCHANGED <<prod_df_in, prod_df>>
    /\ UNCHANGED otherThanProd

(***************************************************************************)
(* expand_data_for_p7.py: backup_existing_data, save_data and main         *)
(* A file is its content, or no file; a backup is named after the file and *)
(* the second it was made in.                                              *)
(***************************************************************************)

\* mutant of files_to_backup: the sales file is left out
files_to_backup_NoSales == << "customers_data.csv", "products_data.csv" >>

\* backup_existing_data: the files copied, in order
files_to_backup == << "customers_data.csv", "products_data.csv", "sales_data.csv" >>

\* save_data: the files written, in order
files_saved == << "customers_data.csv", "products_data.csv", "sales_data.csv" >>

RawFileNames == Range(files_saved)

\* Path.exists() is false: there is no such file
NoFile == "no file"

\* the last second of the clock in the model
MaxClock == 1

\* shutil.copy2(source, destination): the destination is created or replaced
copy2(backups, filename, timestamp, content) ==
    {b \in backups : ~(b.name = filename /\ b.timestamp = timestamp)}
        \cup {[name |-> filename, timestamp |-> timestamp, content |-> content]}

\* datetime.now() moves on between any two steps of the script
ClockTick ==
    /\ exp_pc \in {"backup_existing_data", "save_data"}
    /\ now < MaxClock
    /\ now' = now + 1
    /\ UNCHANGED <<exp_pc, exp_i, raw_files, backup_files, backup_count, warnings, raw_at_start>>
    /\ UNCHANGED otherThanExp

\* backup_existing_data: the source exists and is copied to the backup directory
BackupCopy ==
    /\ exp_pc = "backup_existing_data"
    /\ exp_i <= Len(files_to_backup)
    /\ LET filename == files_to_backup[exp_i] IN
         /\ raw_files[filename] # NoFile
         /\ backup_files' = copy2(backup_files, filename, now, raw_files[filename])
    /\ backup_count' = backup_count + 1
    /\ exp_i' = exp_i + 1
    /\ UNCHANGED <<exp_pc, raw_files, now, warnings, raw_at_start>>
    /\ UNCHANGED otherThanExp

\* backup_existing_data: shutil.copy2 raises and main ends with the exception
BackupCopyRaises ==
    /\ exp_pc = "backup_existing_data"
    /\ exp_i <= Len(files_to_backup)
    /\ raw_files[files_to_backup[exp_i]] # NoFile
    /\ exp_pc' = "backup_raised"
    /\ UNCHANGED <<exp_i, raw_files, backup_files, backup_count, now, warnings, raw_at_start>>
    /\ UNCHANGED otherThanExp

\* backup_existing_data: the source does not exist; a warning is logged
BackupSkip ==
    /\ exp_pc = "backup_existing_data"
    /\ exp_i <= Len(files_to_backup)
    /\ raw_files[files_to_backup[exp_i]] = NoFile
    /\ warnings' = Append(warnings, files_to_backup[exp_i])
    /\ exp_i' = exp_i + 1
    /\ UNCHANGED <<exp_pc, raw_files, backup_files, backup_count, now, raw_at_start>>
    /\ UNCHANGED otherThanExp

\* main: backup_existing_data returns and the three frames are generated
GenerateData ==
    /\ exp_pc = "backup_existing_data"
    /\ exp_i > Len(files_to_backup)
    /\ exp_pc' = "save_data"
    /\ exp_i' = 1
    /\ UNCHANGED <<raw_files, backup_files, backup_count, now, warnings, raw_at_start>>
    /\ UNCHANGED otherThanExp

\* save_data: to_csv writes the generated frame over the raw file
SaveFile ==
    /\ exp_pc = "save_data"
    /\ exp_i <= Len(files_saved)
    /\ raw_files' = [raw_files EXCEPT ![files_saved[exp_i]] = "generated"]
    /\ exp_i' = exp_i + 1
    /\ UNCHANGED <<exp_pc, backup_files, backup_count, now, warnings, raw_at_start>>
    /\ UNCHANGED otherThanExp

\* save_data: to_csv raises, before or after it has opened the file for writing
SaveFileRaises ==
    /\ exp_pc = "save_data"
    /\ exp_i <= Len(files_saved)
    /\ \E content \in {raw_files[files_saved[exp_i]], "truncated"} :
         raw_files' = [raw_files EXCEPT ![files_saved[exp_i]] = content]
    /\ exp_pc' = "save_raised"
    /\ UNCHANGED <<exp_i, backup_files, backup_count, now, warnings, raw_at_start>>
    /\ UNCHANGED otherThanExp

\* main: save_data returns
SaveDone ==
    /\ exp_pc = "save_data"
    /\ exp_i > Len(files_saved)
    /\ exp_pc' = "done"
    /\ UNCHANGED <<exp_i, raw_files, backup_files, backup_count, now, warnings, raw_at_start>>
    /\ UNCHANGED otherThanExp

\* the raw directories main can start on
RawDirs == [RawFileNames -> {NoFile, "p6"}]

\* the backup directories main can start on: empty, or holding a backup of
\* another content made in second 0
BackupDirs ==
    { {}, {[name |-> "customers_data.csv", timestamp |-> 0, content |-> "p5"]} }

(***************************************************************************)
(* expand_data_for_p7.py: the generators                                   *)
(* Of a generated row the model keeps the columns the program sets without *)
(* a random draw: the IDs and the product category.                        *)
(***************************************************************************)

NUM_CUSTOMERS == 400

NUM_PRODUCTS == 120

NUM_TRANSACTIONS == 5000

CATEGORIES == << "Electronics", "Clothing", "Home", "Office" >>

\* generate_products_data: products_per_category = NUM_PRODUCTS // len(CATEGORIES)
products_per_category == NUM_PRODUCTS \div Len(CATEGORIES)

\* mutant of product_id_at_next_category: the product IDs start again in
\* every category
product_id_at_next_category_Reset(pid) == 2000

\* generate_products_data: product_id is set before the loop over CATEGORIES
\* and not inside it, so a category goes on where the one before it ended
product_id_at_next_category(pid) == pid

\* generate_customers_data: one pass of the loop over range(NUM_CUSTOMERS)
GenerateCustomer ==
    /\ gen_pc = "generate_customers_data"
    /\ gen_i < NUM_CUSTOMERS
    /\ gen_customers' = Append(gen_customers, [CustomerID |-> 1000 + gen_i])
    /\ gen_i' = gen_i + 1
    /\ UNCHANGED <<gen_pc, gen_category, product_id, gen_products, gen_sales>>
    /\ UNCHANGED otherThanGen

\* main: generate_customers_data returns, generate_products_data is entered
GenerateCustomersReturn ==
    /\ gen_pc = "generate_customers_data"
    /\ gen_i = NUM_CUSTOMERS
    /\ gen_pc' = "generate_products_data"
    /\ gen_category' = 1
    /\ gen_i' = 0
    /\ product_id' = 2000
    /\ UNCHANGED <<gen_customers, gen_products, gen_sales>>
    /\ UNCHANGED otherThanGen

\* generate_products_data: one pass of the loop over range(products_per_category)
GenerateProduct ==
    /\ gen_pc = "generate_products_data"
    /\ gen_category <= Len(CATEGORIES)
    /\ gen_i < products_per_category
    /\ gen_products' = Append(gen_products,
                              [ ProductID       |-> product_id,
                                ProductCategory |-> CATEGORIES[gen_category] ])
    /\ product_id' = product_id + 1
    /\ gen_i' = gen_i + 1
    /\ UNCHANGED <<gen_pc, gen_category, gen_customers, gen_sales>>
    /\ UNCHANGED otherThanGen

\* generate_products_data: the loop over CATEGORIES goes to the next category
GenerateNextCategory ==
    /\ gen_pc = "generate_products_data"
    /\ gen_category <= Len(CATEGORIES)
    /\ gen_i = products_per_category
    /\ gen_category' = gen_category + 1
    /\ gen_i' = 0
    /\ product_id' = product_id_at_next_category(product_id)
    /\ UNCHANGED <<gen_pc, gen_customers, gen_products, gen_sales>>
    /\ UNCHANGED otherThanGen

\* main: generate_products_data returns, generate_sales_data is entered
GenerateProductsReturn ==
    /\ gen_pc = "generate_products_data"
    /\ gen_category > Len(CATEGORIES)
    /\ gen_pc' = "generate_sales_data"
    /\ gen_i' = 0
    /\ UNCHANGED <<gen_category, product_id, gen_customers, gen_products, gen_sales>>
    /\ UNCHANGED otherThanGen

\* main: sales_df = generate_sales_data(...): the loop over
\* range(1, NUM_TRANSACTIONS + 1) appends one sale for every i, with
\* TransactionID i; save_data is next
GenerateSalesData ==
    /\ gen_pc = "generate_sales_data"
    /\ gen_sales' = [k \in 1..NUM_TRANSACTIONS |-> [TransactionID |-> k]]
    /\ gen_pc' = "save_data"
    /\ UNCHANGED <<gen_i, gen_category, product_id, gen_customers, gen_products>>
    /\ UNCHANGED otherThanGen

(***************************************************************************)
(* The cleaning pipelines of data_preparation: the steps before            *)
(* validate_data, and main                                                 *)
(* A missing value of a column is NaN. The IDs of a sale are numbers of     *)
(* tenths, so that an ID column read as float64 can hold 1.0 and 1.5.      *)
(***************************************************************************)

\* the rows in ascending order of the values of a sequence of numbers
RECURSIVE SortedValues(_)
SortedValues(values) ==
    IF values = << >> THEN << >>
    ELSE LET least == Min(Range(values))
             k     == CHOOSE h \in DOMAIN values : values[h] = least
         IN << least >> \o SortedValues([h \in 1..(Len(values) - 1) |->
                                            IF h < k THEN values[h] ELSE values[h + 1]])

\* four times Series.quantile(quarters / 4) with linear interpolation: the
\* value at position (n - 1) * quarters / 4 of the sorted values
quantile_x4(values, quarters) ==
    LET v     == SortedValues(values)
        pos_4 == (Len(v) - 1) * quarters
        lo    == pos_4 \div 4 + 1
        hi    == IF lo < Len(v) THEN lo + 1 ELSE lo
    IN 4 * v[lo] + (pos_4 % 4) * (v[hi] - v[lo])

\* the rows whose value of col lies within the bounds remove_outliers computes
\* from the quartiles: Q1 - 2.0 * IQR (not below floor) and Q3 + 2.0 * IQR (not
\* above limit); all of it times four
within_iqr_bounds(df, col, floor, limit, with_lower) ==
    IF df = << >> THEN df
    ELSE LET values == [k \in DOMAIN df |-> df[k][col]]
             Q1  == quantile_x4(values, 1)
             Q3  == quantile_x4(values, 3)
             IQR == Q3 - Q1
             lower_bound == Q1 - 2 * IQR
             upper_bound == Q3 + 2 * IQR
             effective_upper == Min({upper_bound, 4 * limit})
             effective_lower == Max({lower_bound, 4 * floor})
         IN SelectSeq(df, LAMBDA r : /\ 4 * r[col] <= effective_upper
                                      /\ with_lower => 4 * r[col] >= effective_lower)

\* a comparison with NaN is false
IsNumber(x) == x # NaN

\* prepare_products.remove_duplicates: drop_duplicates(subset=["productid"], keep="first")
products_remove_duplicates(df) == drop_duplicates(df, "productid")

\* prepare_products.handle_missing_values: nothing is done without a missing
\* value; the rows without productid are dropped. (The fills of the other
\* columns are entered only when the column has a missing value.)
products_handle_missing_values(df) ==
    IF \A k \in DOMAIN df : IsNumber(df[k].productid) THEN df
    ELSE SelectSeq(df, LAMBDA r : IsNumber(r.productid))

\* prepare_products.remove_outliers: the filters in program order; prices are
\* thousandths, stock quantities tenths
products_remove_outliers(df) ==
    LET d1 == SelectSeq(df, LAMBDA r : IsNumber(r.productid) /\ r.productid > 0)
        d2 == SelectSeq(d1, LAMBDA r : r.unitprice > 0)
        d3 == within_iqr_bounds(d2, "unitprice", 10, 10000000, TRUE)
        d4 == SelectSeq(d3, LAMBDA r : r.stockquantity >= 0)
        d5 == within_iqr_bounds(d4, "stockquantity", 0, 100000, FALSE)
        d6 == SelectSeq(d5, LAMBDA r : str_strip(r.productcategory) # << >>)
        d7 == SelectSeq(d6, LAMBDA r : str_strip(r.suppliername) # << >>)
    IN d7

\* a date column holds dates <<year, month, day>>, or a text that
\* pd.to_datetime cannot parse
NotADate == << 0, 0, 0 >>

\* the day the script runs on (pd.Timestamp.now())
Today == << 2026, 1, 15 >>

\* a <= b for two dates
DateLeq(a, b) ==
    \/ a[1] < b[1]
    \/ a[1] = b[1] /\ a[2] < b[2]
    \/ a[1] = b[1] /\ a[2] = b[2] /\ a[3] <= b[3]

\* the try block of remove_outliers: pd.to_datetime(df[col]) raises when a
\* value cannot be parsed, and the except branch leaves the frame as it is;
\* otherwise the rows from the earliest date to now are kept
keep_dates_in_range(df, col, earliest) ==
    IF \E k \in DOMAIN df : df[k][col] = NotADate THEN df
    ELSE SelectSeq(df, LAMBDA r : DateLeq(earliest, r[col]) /\ DateLeq(r[col], Today))

\* prepare_sales.remove_duplicates: drop_duplicates(subset=["transactionid"], keep="first")
sales_remove_duplicates(df) == drop_duplicates(df, "transactionid")

\* prepare_sales.handle_missing_values: nothing is done without a missing
\* value; the rows without transactionid, customerid or productid are dropped.
\* (The fills of the other columns are entered only when the column has a
\* missing value.)
sales_handle_missing_values(df) ==
    IF \A k \in DOMAIN df : /\ IsNumber(df[k].transactionid)
                            /\ IsNumber(df[k].customerid)
                            /\ IsNumber(df[k].productid)
    THEN df
    ELSE LET d1 == SelectSeq(df, LAMBDA r : IsNumber(r.transactionid))
             d2 == SelectSeq(d1, LAMBDA r : IsNumber(r.customerid))
             d3 == SelectSeq(d2, LAMBDA r : IsNumber(r.productid))
         IN d3

\* prepare_sales.remove_outliers: the filters in program order; amounts are
\* thousandths, IDs and quantities tenths
sales_remove_outliers(df) ==
    LET d1 == SelectSeq(df, LAMBDA r : IsNumber(r.transactionid) /\ r.transactionid > 0)
        d2 == SelectSeq(d1, LAMBDA r : r.totalamount > 0)
        d3 == within_iqr_bounds(d2, "totalamount", 10, 50000000, TRUE)
        d4 == SelectSeq(d3, LAMBDA r : r.quantitysold > 0)
        d5 == within_iqr_bounds(d4, "quantitysold", 0, 10000, FALSE)
        d6 == keep_dates_in_range(d5, "transactiondate", << 2020, 1, 1 >>)
    IN d6

\* prepare_sales.validate_data: the unit price totalamount / quantitysold is
\* within 0.01 .. 10000.0, customerid within 1000 .. 9999, productid within
\* 2000 .. 2999
sales_validate_data(df) ==
    LET d1 == SelectSeq(df, LAMBDA r : /\ r.totalamount >= r.quantitysold
                                       /\ r.totalamount <= 1000000 * r.quantitysold)
        d2 == SelectSeq(d1, LAMBDA r : IsNumber(r.customerid)
                                       /\ r.customerid >= 10000 /\ r.customerid <= 99990)
        d3 == SelectSeq(d2, LAMBDA r : IsNumber(r.productid)
                                       /\ r.productid >= 20000 /\ r.productid <= 29990)
    IN d3

\* mutant of sales_id_astype_int: the ID columns are left as they are
sales_id_astype_int_Unchanged(id) == id

\* prepare_sales.standardize_formats: df[col].astype(int) of an ID column
sales_id_astype_int(id) == astype_int(id)

\* prepare_sales.standardize_formats: the rows whose date cannot be parsed
\* are dropped, amounts are rounded, quantities and IDs cast to int
sales_standardize_formats(df) ==
    LET d1 == SelectSeq(df, LAMBDA r : r.transactiondate # NotADate)
    IN [k \in DOMAIN d1 |->
          [d1[k] EXCEPT !.totalamount   = round_2(@),
                        !.quantitysold  = astype_int(@),
                        !.transactionid = sales_id_astype_int(@),
                        !.customerid    = sales_id_astype_int(@),
                        !.productid     = sales_id_astype_int(@)]]

\* DataFrame.drop_duplicates(): of rows equal in every column the first is kept
drop_duplicate_rows(rows) ==
    SelectSeq([k \in DOMAIN rows |-> [row |-> rows[k],
                                      first |-> \A h \in 1..(k - 1) : rows[h] # rows[k]]],
              LAMBDA x : x.first)

\* prepare_customers.remove_duplicates: DataScrubber.remove_duplicate_records
customers_remove_duplicates(df) ==
    LET kept == drop_duplicate_rows(df) IN [k \in DOMAIN kept |-> kept[k].row]

\* prepare_customers.handle_missing_values: the rows without CustomerID are
\* dropped (CustomerName, which is filled, is not a column of the model)
customers_handle_missing_values(df) == SelectSeq(df, LAMBDA r : IsNumber(r.CustomerID))

valid_regions ==
    { << "W", "e", "s", "t" >>, << "E", "a", "s", "t" >>,
      << "C", "e", "n", "t", "r", "a", "l" >>,
      << "N", "o", "r", "t", "h" >>, << "S", "o", "u", "t", "h" >> }

valid_statuses == {"Regular", "Inactive", "VIP", "New"}

\* prepare_customers.remove_outliers: the filters in program order, with the
\* title case of Region
customers_remove_outliers(df) ==
    LET d1 == SelectSeq(df, LAMBDA r : IsNumber(r.CustomerID) /\ r.CustomerID > 0)
        d2 == SelectSeq(d1, LAMBDA r : r.TotalSpend >= 0 /\ r.TotalSpend <= 50000)
        d3 == keep_dates_in_range(d2, "CustomerSince", << 2015, 1, 1 >>)
        d4 == [k \in DOMAIN d3 |-> [d3[k] EXCEPT !.Region = str_title(@)]]
        d5 == SelectSeq(d4, LAMBDA r : r.Region \in valid_regions)
        d6 == SelectSeq(d5, LAMBDA r : r.CustomerStatus \in valid_statuses)
    IN d6

\* main: df = step(df); the row count is logged by every step
PipeStep(next, newdf) ==
    /\ pipe_df' = newdf
    /\ pipe_pc' = next
    /\ pipe_counts' = Append(pipe_counts, Len(newdf))
    /\ UNCHANGED <<pipe_entity, pipe_raw>>
    /\ UNCHANGED otherThanPipe

\* prepare_products.main
ProductsRemoveDuplicates ==
    /\ pipe_entity = "products" /\ pipe_pc = "remove_duplicates"
    /\ PipeStep("handle_missing_values", products_remove_duplicates(pipe_df))

ProductsHandleMissingValues ==
    /\ pipe_entity = "products" /\ pipe_pc = "handle_missing_values"
    /\ PipeStep("remove_outliers", products_handle_missing_values(pipe_df))

ProductsRemoveOutliers ==
    /\ pipe_entity = "products" /\ pipe_pc = "remove_outliers"
    /\ PipeStep("validate_data", products_remove_outliers(pipe_df))

ProductsValidateData ==
    /\ pipe_entity = "products" /\ pipe_pc = "validate_data"
    /\ PipeStep("standardize_formats", validate_data(pipe_df))

ProductsStandardizeFormats ==
    /\ pipe_entity = "products" /\ pipe_pc = "standardize_formats"
    /\ PipeStep("save_prepared_data", standardize_formats(pipe_df))

\* prepare_sales.main
SalesRemoveDuplicates ==
    /\ pipe_entity = "sales" /\ pipe_pc = "remove_duplicates"
    /\ PipeStep("handle_missing_values", sales_remove_duplicates(pipe_df))

SalesHandleMissingValues ==
    /\ pipe_entity = "sales" /\ pipe_pc = "handle_missing_values"
    /\ PipeStep("remove_outliers", sales_handle_missing_values(pipe_df))

SalesRemoveOutliers ==
    /\ pipe_entity = "sales" /\ pipe_pc = "remove_outliers"
    /\ PipeStep("validate_data", sales_remove_outliers(pipe_df))

SalesValidateData ==
    /\ pipe_entity = "sales" /\ pipe_pc = "validate_data"
    /\ PipeStep("standardize_formats", sales_validate_data(pipe_df))

SalesStandardizeFormats ==
    /\ pipe_entity = "sales" /\ pipe_pc = "standardize_formats"
    /\ PipeStep("save_prepared_data", sales_standardize_formats(pipe_df))

\* prepare_customers.main
CustomersRemoveDuplicates ==
    /\ pipe_entity = "customers" /\ pipe_pc = "remove_duplicates"
    /\ PipeStep("handle_missing_values", customers_remove_duplicates(pipe_df))

CustomersHandleMissingValues ==
    /\ pipe_entity = "customers" /\ pipe_pc = "handle_missing_values"
    /\ PipeStep("remove_outliers", customers_handle_missing_values(pipe_df))

CustomersRemoveOutliers ==
    /\ pipe_entity = "customers" /\ pipe_pc = "remove_outliers"
    /\ PipeStep("save_prepared_data", customers_remove_outliers(pipe_df))

\* save_prepared_data: the frame is written to the prepared file
SavePreparedData ==
    /\ pipe_pc = "save_prepared_data"
    /\ pipe_pc' = "saved"
    /\ UNCHANGED <<pipe_entity, pipe_raw, pipe_df, pipe_counts>>
    /\ UNCHANGED otherThanPipe

\* a raw sale that passes every step unchanged
BaseSale ==
    [ transactionid   |-> 10,
      customerid      |-> 10000,
      productid       |-> 20000,
      totalamount     |-> 5000,
      quantitysold    |-> 10,
      transactiondate |-> << 2025, 6, 1 >> ]

\* the rows of the raw sales file in the model: the base sale, and the base
\* sale with one field replaced
RawSaleRows ==
    {BaseSale}
    \cup {[BaseSale EXCEPT !.transactionid = v] : v \in {NaN, -10, 12, 17, 20}}
    \cup {[BaseSale EXCEPT !.customerid = v] : v \in {NaN, 5000}}
    \cup {[BaseSale EXCEPT !.totalamount = v] : v \in {0, 7000, 60000000}}
    \cup {[BaseSale EXCEPT !.quantitysold = v] : v \in {0, 15}}
    \cup {[BaseSale EXCEPT !.transactiondate = v] :
            v \in {NotADate, << 2019, 12, 31 >>, << 2030, 1, 1 >>}}

\* the rows of the raw products file in the model
RawProductRows ==
    {BaseProduct}
    \cup {[BaseProduct EXCEPT !.productid = v] : v \in {NaN, -1, 999, 1001}}
    \cup {[BaseProduct EXCEPT !.productname = v] : v \in { << "a", " " >> }}
    \cup {[BaseProduct EXCEPT !.suppliername = v] : v \in { << " ", "a" >> }}
    \cup {[BaseProduct EXCEPT !.productcategory = v] :
            v \in { << " " >>, << "h", "o", "m", "e" >> }}
    \cup {[BaseProduct EXCEPT !.unitprice = v] : v \in {0, 994, 996, 3000, 20000000}}
    \cup {[BaseProduct EXCEPT !.stockquantity = v] : v \in {-10, 26}}

\* a raw customer that passes every step unchanged
BaseCustomer ==
    [ CustomerID     |-> 1000,
      TotalSpend     |-> 100,
      CustomerSince  |-> << 2020, 5, 1 >>,
      Region         |-> << "E", "a", "s", "t" >>,
      CustomerStatus |-> "Regular" ]

\* the rows of the raw customers file in the model
RawCustomerRows ==
    {BaseCustomer}
    \cup {[BaseCustomer EXCEPT !.CustomerID = v] : v \in {NaN, -1, 1001}}
    \cup {[BaseCustomer EXCEPT !.TotalSpend = v] : v \in {200, 60000}}
    \cup {[BaseCustomer EXCEPT !.CustomerSince = v] : v \in {NotADate, << 2010, 1, 1 >>}}
    \cup {[BaseCustomer EXCEPT !.Region = v] :
            v \in { << "e", "a", "s", "t" >>, << "M", "a", "r", "s" >> }}
    \cup {[BaseCustomer EXCEPT !.CustomerStatus = v] : v \in {"At-Risk"}}

\* the most rows a raw file has in the model
MaxRaw == 2

\* the raw files of an entity
RawFrames(entity) ==
    SeqsUpTo(CASE entity = "products"  -> RawProductRows
               [] entity = "sales"     -> RawSaleRows
               [] entity = "customers" -> RawCustomerRows, MaxRaw)

\* the ID column of an entity
IdColumn(entity) ==
    CASE entity = "products"  -> "productid"
      [] entity = "sales"     -> "transactionid"
      [] entity = "customers" -> "CustomerID"

(***************************************************************************)
(* Initial states and specifications                                       *)
(***************************************************************************)

\* run_data_prep_pipeline: the state at the top of the for loop
IdlePrep ==
    /\ prep_pc = "loop"
    /\ i = 1
    /\ child = "none"
    /\ invoked = << >>
    /\ results = << >>
    /\ j = 0
    /\ success_count = 0
    /\ failed_count = 0
    /\ exit_code = -1


\* nothing of the warehouse scripts has run; the database is as it was found
IdleDwOn(d, files) ==
    /\ db = d
    /\ db0 = d
    /\ schema_created = FALSE
    /\ prepared = files
    /\ etl_pc = "idle"
    /\ etl_log = << >>
    /\ etl_error = "none"
    /\ etl_runs = 0
    /\ schema_at_start = FALSE
    /\ first_load = [run |-> 0, rows |-> BusinessRows(EmptyDb)]

IdleDw == IdleDwOn(EmptyDb, [customers |-> Missing, products |-> Missing, sales |-> Missing])

\* prepare_products.main has a frame frame at the call of validate_data
IdleProdOn(frame) ==
    /\ prod_pc = "validate_data"
    /\ prod_df_in = frame
    /\ prod_df = frame
    /\ prod_df_swapped = frame

IdleProd == IdleProdOn(<< BaseProduct >>)

\* expand_data_for_p7.main is at the call of backup_existing_data
IdleExpOn(raw, backups) ==
    /\ exp_pc = "backup_existing_data"
    /\ exp_i = 1
    /\ raw_files = raw
    /\ backup_files = backups
    /\ backup_count = 0
    /\ now = 0
    /\ warnings = << >>
    /\ raw_at_start = raw

IdleExp == IdleExpOn([f \in RawFileNames |-> NoFile], {})

\* main is at the call of generate_customers_data
IdleGen ==
    /\ gen_pc = "generate_customers_data"
    /\ gen_i = 0
    /\ gen_category = 1
    /\ product_id = 2000
    /\ gen_customers = << >>
    /\ gen_products = << >>
    /\ gen_sales = << >>

\* main of a cleaning script has read the raw file
IdlePipeOn(entity, raw) ==
    /\ pipe_entity = entity
    /\ pipe_pc = "remove_duplicates"
    /\ pipe_raw = raw
    /\ pipe_df = raw
    /\ pipe_counts = << Len(raw) >>

IdlePipe == IdlePipeOn("products", << >>)

InitPrep == IdlePrep /\ IdleDw /\ IdleProd /\ IdleExp /\ IdleGen /\ IdlePipe

NextPrep ==
    \/ PrepSpawn
    \/ PrepChildExit
    \/ PrepNotFound
    \/ PrepCritical
    \/ PrepLoopEnd
    \/ PrepCount
    \/ PrepReturn

SpecPrep == InitPrep /\ [][NextPrep]_vars

\* create_warehouse.py and load_warehouse.py on a database and prepared files
Init ==
    /\ \E d \in LoaderDbs, files \in PreparedFiles : IdleDwOn(d, files)
    /\ IdlePrep
    /\ IdleProd
    /\ IdleExp
    /\ IdleGen
    /\ IdlePipe

Next ==
    \/ CreateWarehouse
    \/ ETLStart
    \/ ClearWarehouseData
    \/ LoadCustomers
    \/ LoadProducts
    \/ LoadDates
    \/ LoadSales
    \/ VerifyLoad

Spec == Init /\ [][Next]_vars

\* create_warehouse.py on any database
InitSchema ==
    /\ \E d \in PriorDbs :
          IdleDwOn(d, [customers |-> Missing, products |-> Missing, sales |-> Missing])
    /\ IdlePrep
    /\ IdleProd
    /\ IdleExp
    /\ IdleGen
    /\ IdlePipe

NextSchema == CreateWarehouse

SpecSchema == InitSchema /\ [][NextSchema]_vars

\* validate_data and standardize_formats of prepare_products.py on a frame
InitProducts ==
    /\ \E frame \in ProductFrames : IdleProdOn(frame)
    /\ IdlePrep
    /\ IdleDw
    /\ IdleExp
    /\ IdleGen
    /\ IdlePipe

NextProducts ==
    \/ ValidateData
    \/ StandardizeFormats
    \/ SwappedStandardizeFormats
    \/ SwappedValidateData

SpecProducts == InitProducts /\ [][NextProducts]_vars

\* one run of expand_data_for_p7.main on a raw and a backup directory
InitExpand ==
    /\ \E raw \in RawDirs, backups \in BackupDirs : IdleExpOn(raw, backups)
    /\ IdlePrep
    /\ IdleDw
    /\ IdleProd
    /\ IdleGen
    /\ IdlePipe

NextExpand ==
    \/ ClockTick
    \/ BackupCopy
    \/ BackupCopyRaises
    \/ BackupSkip
    \/ GenerateData
    \/ SaveFile
    \/ SaveFileRaises
    \/ SaveDone

SpecExpand == InitExpand /\ [][NextExpand]_vars

\* the three generators as main calls them
InitGenerate ==
    /\ IdleGen
    /\ IdlePrep
    /\ IdleDw
    /\ IdleProd
    /\ IdleExp
    /\ IdlePipe

NextGenerate ==
    \/ GenerateCustomer
    \/ GenerateCustomersReturn
    \/ GenerateProduct
    \/ GenerateNextCategory
    \/ GenerateProductsReturn
    \/ GenerateSalesData

SpecGenerate == InitGenerate /\ [][NextGenerate]_vars

\* main of each of the three cleaning scripts on a raw file
InitPipeline ==
    /\ \E entity \in {"products", "sales", "customers"} :
          \E raw \in RawFrames(entity) : IdlePipeOn(entity, raw)
    /\ IdlePrep
    /\ IdleDw
    /\ IdleProd
    /\ IdleExp
    /\ IdleGen

NextPipeline ==
    \/ ProductsRemoveDuplicates
    \/ ProductsHandleMissingValues
    \/ ProductsRemoveOutliers
    \/ ProductsValidateData
    \/ ProductsStandardizeFormats
    \/ SalesRemoveDuplicates
    \/ SalesHandleMissingValues
    \/ SalesRemoveOutliers
    \/ SalesValidateData
    \/ SalesStandardizeFormats
    \/ CustomersRemoveDuplicates
    \/ CustomersHandleMissingValues
    \/ CustomersRemoveOutliers
    \/ SavePreparedData

SpecPipeline == InitPipeline /\ [][NextPipeline]_vars

(***************************************************************************)
(* Claims about run_all_data_prep.py (checked under SpecPrep)              *)
(***************************************************************************)

\* C1: the three cleaning scripts are invoked strictly serially in the fixed
\* order prepare_customers.py, prepare_products.py, prepare_sales.py: the
\* scripts invoked so far are always a prefix of that list (so none is invoked
\* twice), a script is invoked only when every earlier one has terminated and
\* has its result recorded, and a pipeline that reaches its summary has
\* invoked all three.
C1_SerialFixedOrder ==
    LET order == << "prepare_customers.py", "prepare_products.py", "prepare_sales.py" >> IN
    /\ IsPrefix(invoked, order)
    /\ child # "none" => (invoked # << >> /\ child = invoked[Len(invoked)])
    /\ prep_pc # "critical" =>
          Len(results) = Len(invoked) - (IF child = "none" THEN 0 ELSE 1)
    /\ \A k \in DOMAIN results : results[k].script = order[k]
    /\ prep_pc \in {"summary", "returned"} => invoked = order

\* C1 witness: the third script runs while the first two have terminated
C1_Witness ==
    /\ child = "prepare_sales.py"
    /\ Len(results) = 2
    /\ results[1].script = "prepare_customers.py"
    /\ results[2].script = "prepare_products.py"

\* C2: when run_data_prep_pipeline returns, the exit status is 0 exactly when
\* all three scripts were recorded as SUCCESS, it is 1 when some script was
\* recorded as FAILED or NOT FOUND, and success_count + failed_count = 3.
C2_ExitStatusAggregates ==
    prep_pc = "returned" =>
        /\ (exit_code = 0) <=> (\A k \in DOMAIN results : results[k].status = "SUCCESS")
        /\ (\E k \in DOMAIN results : results[k].status \in {"FAILED", "NOT FOUND"})
              => exit_code = 1
        /\ success_count + failed_count = 3
        /\ success_count = Cardinality({k \in DOMAIN results : results[k].status = "SUCCESS"})

\* C2 witness: a returned run with one script not found and the others successful
C2_Witness ==
    /\ prep_pc = "returned"
    /\ exit_code = 1
    /\ \E k \in DOMAIN results : results[k].status = "NOT FOUND"
    /\ success_count = 2

\* C3: a failed script does not abort the pipeline: whenever the loop is
\* between two scripts it stands at the script after the last recorded one
\* (whatever the recorded statuses), and after the loop the results map holds
\* exactly one entry for each of the three scripts.
C3_FailureDoesNotAbort ==
    /\ (prep_pc = "loop" /\ child = "none") => i = Len(results) + 1
    /\ prep_pc \in {"summary", "returned"} =>
          /\ Len(results) = 3
          /\ \A s \in Range(scripts) :
                Cardinality({k \in DOMAIN results : results[k].script = s}) = 1

\* C3 witness: the first script failed and the two later ones were still run
C3_Witness ==
    /\ prep_pc = "returned"
    /\ Len(results) = 3
    /\ results[1].status = "FAILED"
    /\ results[2].status = "SUCCESS"
    /\ results[3].status = "FAILED"

(***************************************************************************)
(* Claims about create_warehouse.py and load_warehouse.py                  *)
(***************************************************************************)

\* the prepared files are all there, with unique keys and at least one sale
ValidPrepared ==
    /\ prepared.customers.present /\ prepared.products.present /\ prepared.sales.present
    /\ prepared.customers.dtype = "int"
    /\ \A a, b \in DOMAIN prepared.customers.rows :
          a # b => prepared.customers.rows[a].CustomerID # prepared.customers.rows[b].CustomerID
    /\ \A a, b \in DOMAIN prepared.products.rows :
          a # b => prepared.products.rows[a].productid # prepared.products.rows[b].productid
    /\ prepared.sales.rows # << >>
    /\ \A a, b \in DOMAIN prepared.sales.rows :
          a # b => prepared.sales.rows[a].transactionid # prepared.sales.rows[b].transactionid
    /\ \A a \in DOMAIN prepared.sales.rows :
          /\ \E c \in DOMAIN prepared.customers.rows :
                prepared.customers.rows[c].CustomerID = prepared.sales.rows[a].customerid
          /\ \E c \in DOMAIN prepared.products.rows :
                prepared.products.rows[c].productid = prepared.sales.rows[a].productid

\* C4 (as claimed): an ETL run started after create_warehouse.py on valid
\* prepared files completes successfully and leaves dim_customers,
\* dim_products, dim_dates and fact_sales populated with the prepared
\* customers, products, dates and sales.
C4_CreateThenLoadPopulates ==
    (schema_at_start /\ ValidPrepared /\ etl_pc \in {"done", "failed"}) =>
        /\ etl_pc = "done"
        /\ Len(db.rows["dim_customers"]) = Len(prepared.customers.rows)
        /\ Len(db.rows["dim_products"]) = Len(prepared.products.rows)
        /\ Len(db.rows["fact_sales"]) = Len(prepared.sales.rows)
        /\ db.rows["dim_dates"] # << >>

\* C5: the ETL is one sequential pass in the order clear_warehouse_data,
\* load_customers, load_products, load_dates, load_sales, verify_load: the
\* steps entered so far are a prefix of that order, the step about to run is
\* the next of it, and a completed run has entered all six.
C5_SequentialPass ==
    LET order == << "clear_warehouse_data", "load_customers", "load_products",
                    "load_dates", "load_sales", "verify_load" >> IN
    /\ IsPrefix(etl_log, order)
    /\ etl_pc \in Range(order) => etl_pc = order[Len(etl_log) + 1]
    /\ etl_pc = "load_sales" =>
          {"clear_warehouse_data", "load_customers", "load_products", "load_dates"}
             \subseteq Range(etl_log)
    /\ etl_pc = "done" => etl_log = order

\* C5 witness: a completed pass that loaded facts
C5_Witness ==
    /\ etl_pc = "done"
    /\ Len(etl_log) = 6
    /\ db.rows[LoaderTable("sales")] # << >>
    /\ db.rows[LoaderTable("dates")] # << >>

\* C6: when an ETL step raises, main re-raises: the failing step is the last
\* step the run enters, nothing is retried, the failing step leaves the
\* database as the earlier steps committed it, and after the failure the run
\* changes nothing more (only a new run of the script goes on).
C6_FailureStopsThePass ==
    /\ [](etl_error # "none" =>
            /\ etl_pc = "failed"
            /\ etl_log # << >>
            /\ etl_log[Len(etl_log)] = etl_error
            /\ \A a, b \in DOMAIN etl_log : a # b => etl_log[a] # etl_log[b])
    /\ [][ /\ (etl_pc # "failed" /\ etl_pc' = "failed") => db' = db
           /\ etl_pc = "failed" =>
                 \/ (db' = db /\ etl_log' = etl_log /\ etl_pc' = "failed")
                 \/ (etl_runs' = etl_runs + 1 /\ etl_log' = << >> /\ db' = db) ]_vars

\* C6 witness: load_products raised after load_customers had committed its rows
C6_Witness ==
    /\ etl_pc = "failed"
    /\ etl_error = "load_products"
    /\ db.rows[LoaderTable("customers")] # << >>
    /\ db.rows[LoaderTable("products")] = << >>
    /\ db.rows[LoaderTable("sales")] = << >>

\* the prepared sale has a loaded customer and a loaded product with its IDs
SaleIsMatched(s) ==
    /\ \E c \in DOMAIN db.rows[LoaderTable("customers")] :
          db.rows[LoaderTable("customers")][c].customer_id = IdText(s.customerid, "int")
    /\ \E c \in DOMAIN db.rows[LoaderTable("products")] :
          db.rows[LoaderTable("products")][c].product_id = IdText(s.productid, "int")

\* C7: once load_sales has returned, the fact table holds exactly one row for
\* each prepared sale that has a loaded customer and a loaded product with its
\* IDs (as texts), in file order and with the keys of those dimension rows;
\* every other prepared sale is dropped.
C7_OneFactRowPerMatchedSale ==
    etl_pc \in {"verify_load", "done"} =>
        LET matched == SelectSeq(prepared.sales.rows, SaleIsMatched)
            facts   == db.rows[LoaderTable("sales")]
            cust    == db.rows[LoaderTable("customers")]
            prod    == db.rows[LoaderTable("products")]
        IN /\ Len(facts) = Len(matched)
           /\ \A k \in DOMAIN facts :
                 /\ facts[k].transaction_id = IdText(matched[k].transactionid, "int")
                 /\ \E c \in DOMAIN cust :
                       /\ cust[c].customer_key = facts[k].customer_key
                       /\ cust[c].customer_id = IdText(matched[k].customerid, "int")
                 /\ \E c \in DOMAIN prod :
                       /\ prod[c].product_key = facts[k].product_key
                       /\ prod[c].product_id = IdText(matched[k].productid, "int")

\* C7 witness: of two prepared sales one is loaded and the one without a
\* matching product is dropped
C7_Witness ==
    /\ etl_pc = "done"
    /\ Len(prepared.sales.rows) = 2
    /\ prepared.sales.rows[1].productid = 3
    /\ prepared.sales.rows[1].customerid = 1
    /\ Len(db.rows[LoaderTable("sales")]) = 1
    /\ db.rows[LoaderTable("sales")][1].transaction_id
          = IdText(prepared.sales.rows[2].transactionid, "int")

\* the indexes the database holds
IndexesOf(d) == {n \in IndexNames : d.index[n] # "none"}

InStandardForm(r) == standardize_formats(<< [r EXCEPT !.unitprice = round_2(@)] >>)
                        = << [r EXCEPT !.unitprice = round_2(@)] >>

BackedUp(f) ==
    \E b \in backup_files : b.name = f /\ b.content = raw_at_start[f]

\* C10: main backs the existing raw files up before save_data overwrites
\* them: a raw file whose content differs from the content at the start
\* either did not exist at the start or has a backup of that content; and a
\* missing file is skipped with a warning rather than aborting: main ends
\* with an exception during the backup only at a file that exists, and once
\* the backup is over every file missing at the start has its warning.
C10_BackupBeforeOverwrite ==
    /\ \A f \in RawFileNames :
         raw_files[f] # raw_at_start[f] => (raw_at_start[f] = NoFile \/ BackedUp(f))
    /\ exp_pc = "backup_raised" => raw_at_start[files_to_backup[exp_i]] # NoFile
    /\ exp_pc \in {"save_data", "save_raised", "done"} =>
         \A f \in RawFileNames : raw_at_start[f] = NoFile <=> f \in Range(warnings)

\* C10 witness: main is done on a directory where the sales file existed and the
\* customers file was missing: the sales file is overwritten and backed up,
\* the customers file was skipped with a warning and written
C10_Witness ==
    /\ exp_pc = "done"
    /\ raw_at_start["sales_data.csv"] = "p6"
    /\ raw_files["sales_data.csv"] = "generated"
    /\ BackedUp("sales_data.csv")
    /\ raw_at_start["customers_data.csv"] = NoFile
    /\ "customers_data.csv" \in Range(warnings)
    /\ raw_files["customers_data.csv"] = "generated"

(***************************************************************************)
(* Claims about the generators of expand_data_for_p7.py (SpecGenerate)     *)
(***************************************************************************)

\* the values of a column, in row order
Column(rows, col) == [k \in DOMAIN rows |-> rows[k][col]]

\* the sequence lo, lo + 1, ..., hi
Consecutive(lo, hi) == [k \in 1..(hi - lo + 1) |-> lo + k - 1]

\* C11: when the three generators have returned there are exactly 400
\* customers with the distinct IDs 1000..1399, exactly 120 products with the
\* distinct IDs 2000..2119, 30 in each of the four categories, and exactly
\* 5000 sales with the distinct TransactionIDs 1..5000.
C11_GeneratedCounts ==
    gen_pc = "save_data" =>
        /\ Column(gen_customers, "CustomerID") = Consecutive(1000, 1399)
        /\ Len(gen_customers) = 400
        /\ Column(gen_products, "ProductID") = Consecutive(2000, 2119)
        /\ Len(gen_products) = 120
        /\ \A c \in DOMAIN CATEGORIES :
             Cardinality({k \in DOMAIN gen_products :
                            gen_products[k].ProductCategory = CATEGORIES[c]}) = 30
        /\ Column(gen_sales, "TransactionID") = Consecutive(1, 5000)
        /\ Len(gen_sales) = 5000

\* C11 witness: the generators have returned, and the last product and the
\* last sale are in the lists
C11_Witness ==
    /\ gen_pc = "save_data"
    /\ gen_products # << >>
    /\ gen_products[Len(gen_products)].ProductCategory = "Office"
    /\ gen_sales # << >>
    /\ gen_sales[Len(gen_sales)].TransactionID = NUM_TRANSACTIONS

(***************************************************************************)
(* More claims about load_warehouse.py (checked under Spec)                *)
(***************************************************************************)

\* the values of the key column of a loader table
KeysOf(kind) ==
    {db.rows[LoaderTable(kind)][k][KeyColumn(LoaderTable(kind))] :
        k \in DOMAIN db.rows[LoaderTable(kind)]}

\* C12: after an ETL run that completed, every row of the sales table has a
\* customer_key, a product_key and a date_key that is the key of a row of the
\* customers, the products and the dates table.
C12_ReferentialIntegrity ==
    etl_pc = "done" =>
        \A k \in DOMAIN db.rows[LoaderTable("sales")] :
            LET s == db.rows[LoaderTable("sales")][k] IN
            /\ s.customer_key \in KeysOf("customers")
            /\ s.product_key \in KeysOf("products")
            /\ s.date_key \in KeysOf("dates")

\* C12 witness: a run completed on a database that held rows of an earlier
\* load, and loaded two sales on different days
C12_Witness ==
    /\ etl_pc = "done"
    /\ db0.rows[LoaderTable("sales")] # << >>
    /\ Len(db.rows[LoaderTable("sales")]) = 2
    /\ db.rows[LoaderTable("sales")][1].date_key # db.rows[LoaderTable("sales")][2].date_key

\* load_dates has returned in the current run and the dates table is as it left it
DatesLoaded ==
    \/ etl_pc \in {"load_sales", "verify_load", "done"}
    \/ etl_pc = "failed" /\ etl_error \in {"load_sales", "verify_load"}

\* C13: when load_dates has returned, the dates table holds exactly one row
\* for every calendar day from the earliest to the latest transaction date of
\* the prepared sales, both included, with date_key the number YYYYMMDD of the
\* day; the date_key values are unique, and the date_key load_sales computes
\* for any prepared sale is among them.
C13_OneRowPerDay ==
    DatesLoaded =>
        LET rows  == db.rows[LoaderTable("dates")]
            sold  == {to_datetime(prepared.sales.rows[k].transactiondate) :
                         k \in DOMAIN prepared.sales.rows}
            first == Min(sold)
            last  == Max(sold)
        IN /\ Len(rows) = last - first + 1
           /\ \A n \in first..last :
                \E k \in DOMAIN rows :
                   /\ rows[k].full_date = DateOfDay(n)
                   /\ rows[k].date_key = DateOfDay(n)[1] * 10000 + DateOfDay(n)[2] * 100
                                            + DateOfDay(n)[3]
           /\ \A k, h \in DOMAIN rows : k # h => rows[k].date_key # rows[h].date_key
           /\ \A k \in DOMAIN prepared.sales.rows :
                DateKey(to_datetime(prepared.sales.rows[k].transactiondate)) \in KeysOf("dates")

\* C13 witness: load_dates has returned for sales whose first and last day are
\* in different years, with days between them on which nothing was sold
C13_Witness ==
    /\ etl_pc = "load_sales"
    /\ Len(prepared.sales.rows) = 2
    /\ Len(db.rows[LoaderTable("dates")]) > 2
    /\ db.rows[LoaderTable("dates")][1].date_key = 20241230
    /\ \E k \in DOMAIN db.rows[LoaderTable("dates")] :
          db.rows[LoaderTable("dates")][k].date_key = 20250101

\* C14: an ETL run on a warehouse that an earlier run on the same prepared
\* files has loaded completes as well and leaves the same business rows as
\* that run: every customer_id, product_id, full_date and transaction_id is
\* there exactly once, and every sale is of the same customer, product and
\* day.
C14_SecondRunSameRows ==
    (first_load.run > 0 /\ etl_runs > first_load.run /\ etl_pc \in {"done", "failed"}) =>
        /\ etl_pc = "done"
        /\ BusinessRows(db) = first_load.rows
        /\ \A kind \in Kinds :
             LET ids == BusinessRows(db).ids[kind]
             IN \A k, h \in DOMAIN ids : k # h => ids[k] # ids[h]

\* C14 witness: the second of two runs in a row has completed, on a
\* warehouse with two customers, two products, several days and two sales
C14_Witness ==
    /\ first_load.run = 1
    /\ etl_runs = 2
    /\ etl_pc = "done"
    /\ Len(db.rows[LoaderTable("customers")]) = 2
    /\ Len(db.rows[LoaderTable("products")]) = 2
    /\ Len(db.rows[LoaderTable("dates")]) > 2
    /\ Len(db.rows[LoaderTable("sales")]) = 2

\* load_customers has returned in the current run and the customers table is
\* as it left it
CustomersLoaded ==
    \/ etl_pc \in {"load_products", "load_dates", "load_sales", "verify_load", "done"}
    \/ etl_pc = "failed"
         /\ etl_error \in {"load_products", "load_dates", "load_sales", "verify_load"}

\* the place of the first row of the prepared customer file with this CustomerID
FirstRowOf(id) ==
    Min({k \in DOMAIN prepared.customers.rows : prepared.customers.rows[k].CustomerID = id})

\* C15: load_customers raises only when the prepared file is missing, also
\* when the file holds several rows with one CustomerID; when it has returned
\* the customers table holds one row for every CustomerID of the file, in the
\* order of the first occurrences, so customer_id is unique in the table; and
\* when load_sales has returned the sales table has no more rows than the
\* prepared sales file.
C15_OneRowPerCustomerID ==
    /\ (etl_pc = "failed" /\ etl_error = "load_customers") => ~prepared.customers.present
    /\ CustomersLoaded =>
         LET rows == db.rows[LoaderTable("customers")]
             file == prepared.customers.rows
         IN /\ \A k, h \in DOMAIN rows : k # h => rows[k].customer_id # rows[h].customer_id
            /\ {rows[k].customer_id.digits : k \in DOMAIN rows}
                 = {file[k].CustomerID : k \in DOMAIN file}
            /\ \A k, h \in DOMAIN rows :
                 k < h => FirstRowOf(rows[k].customer_id.digits)
                             < FirstRowOf(rows[h].customer_id.digits)
    /\ etl_pc \in {"verify_load", "done"} =>
         Len(db.rows[LoaderTable("sales")]) <= Len(prepared.sales.rows)

\* C15 witness: a run completed on a customer file in which CustomerID 1 is in
\* the first and in the third row; two customers and two sales were loaded
C15_Witness ==
    /\ etl_pc = "done"
    /\ Len(prepared.customers.rows) = 3
    /\ prepared.customers.rows[1].CustomerID = prepared.customers.rows[3].CustomerID
    /\ Len(db.rows[LoaderTable("customers")]) = 2
    /\ Len(db.rows[LoaderTable("sales")]) = 2

\* the rows of a frame have pairwise different values in a column
KeyUnique(df, col) ==
    \A k, h \in DOMAIN df : k # h => df[k][col] # df[h][col]

\* the rows of a frame whose value in a column occurs in no earlier row
FirstOccurrences(df, col) ==
    SelectSeq([k \in DOMAIN df |-> [at |-> k, row |-> df[k]]],
              LAMBDA e : \A h \in 1..(e.at - 1) : df[h][col] # e.row[col])

\* C16: for products and sales, when remove_duplicates has returned the frame
\* holds, for every key of the raw file, exactly the first row with that key,
\* in the order of the raw file; and from then on, through every later step
\* up to the frame written to the prepared file, no two rows have the same
\* key (so the frame validate_data receives has no duplicate ProductID).
C16_KeyStaysUnique ==
    pipe_entity \in {"products", "sales"} =>
        /\ pipe_pc = "handle_missing_values" =>
             LET first == FirstOccurrences(pipe_raw, IdColumn(pipe_entity))
             IN pipe_df = [k \in DOMAIN first |-> first[k].row]
        /\ pipe_pc # "remove_duplicates" => KeyUnique(pipe_df, IdColumn(pipe_entity))

\* main of prepare_products.py has passed every step: pipe_df is the frame
\* written to products_prepared.csv
ProductsWritten ==
    pipe_entity = "products" /\ pipe_pc \in {"save_prepared_data", "saved"}

\* C17: every row of the frame written to products_prepared.csv has a
\* productid from 1000 to 99999, a category of the approved list and a unit
\* price of at least 1.00 (1000 thousandths).
C17_WrittenProductsPassRules ==
    ProductsWritten =>
        \A k \in DOMAIN pipe_df :
            /\ pipe_df[k].productid >= 1000 /\ pipe_df[k].productid <= 99999
            /\ pipe_df[k].productcategory \in valid_categories
            /\ pipe_df[k].unitprice >= 1000

\* C17 witness: the raw file held a product with productid 999 and a product
\* with unit price 0.996; the file was written with the second product alone,
\* at the price 1.00
C17_Witness ==
    /\ ProductsWritten /\ pipe_pc = "saved"
    /\ Len(pipe_raw) = 2
    /\ pipe_raw[1].productid = 999
    /\ pipe_raw[2].unitprice = 996
    /\ Len(pipe_df) = 1
    /\ pipe_df[1].unitprice = 1000

\* C18: every row of the frame written to products_prepared.csv has a
\* productname of 2 to 100 characters and a suppliername of 2 to 50
\* characters, as the values are after standardize_formats.
C18_WrittenNamesWithinLength ==
    ProductsWritten =>
        \A k \in DOMAIN pipe_df :
            /\ Len(pipe_df[k].productname) >= 2 /\ Len(pipe_df[k].productname) <= 100
            /\ Len(pipe_df[k].suppliername) >= 2 /\ Len(pipe_df[k].suppliername) <= 50

\* main of a cleaning script has passed every step: pipe_df is the frame
\* written to the prepared file
PreparedWritten == pipe_pc \in {"save_prepared_data", "saved"}

\* the row counts logged so far never go up from one step to the next
CountsNeverGoUp ==
    \A k \in 1..(Len(pipe_counts) - 1) : pipe_counts[k + 1] <= pipe_counts[k]

\* C19 as stated: for products, sales and customers no step adds a row, so
\* the row count is non-increasing from step to step, and every row of the
\* frame written to the prepared file has the ID of a row of the raw file.
C19_RowsOnlyRemovedSameID ==
    /\ CountsNeverGoUp
    /\ PreparedWritten =>
         \A k \in DOMAIN pipe_df :
             \E h \in DOMAIN pipe_raw :
                 pipe_raw[h][IdColumn(pipe_entity)] = pipe_df[k][IdColumn(pipe_entity)]

\* C19 amended: for products, sales and customers no step adds a row, so the
\* row count is non-increasing from step to step and the written frame has no
\* more rows than the raw file; every written product and customer has the
\* ID of a raw row, and every written sale has the transactionid of a raw
\* row truncated to a whole number.
C19_RowsOnlyRemoved ==
    /\ CountsNeverGoUp
    /\ Len(pipe_df) <= Len(pipe_raw)
    /\ PreparedWritten =>
         \A k \in DOMAIN pipe_df :
             \E h \in DOMAIN pipe_raw :
                 LET raw_id == pipe_raw[h][IdColumn(pipe_entity)]
                 IN pipe_df[k][IdColumn(pipe_entity)] =
                        IF pipe_entity = "sales" THEN astype_int(raw_id) ELSE raw_id

\* C19 witness: the raw sales file held a sale with transactionid 1.2 and a
\* sale without transactionid; handle_missing_values dropped the second, and
\* the first was written with transactionid 1
C19_Witness ==
    /\ pipe_entity = "sales" /\ pipe_pc = "saved"
    /\ Len(pipe_raw) = 2
    /\ pipe_raw[1].transactionid = 12
    /\ pipe_raw[2].transactionid = NaN
    /\ pipe_counts = << 2, 2, 1, 1, 1, 1 >>
    /\ Len(pipe_df) = 1
    /\ pipe_df[1].transactionid = 10

====
